---- MODULE Spec2Model ----
(***************************************************************************)
(* Model of the HTTP request Router of http/router.ts.                     *)
(*                                                                         *)
(* Strings are sequences of one-character strings, so that prefix tests,   *)
(* lengths, concatenation and the last character are computed as the code  *)
(* computes them.  The state is the three private fields of the Router     *)
(* plus a record of the last call made on it and of what that call gave.   *)
(***************************************************************************)
EXTENDS Integers, Sequences, FiniteSets, TLC

\* ------------------------------------------------------------------------
\* Bounds of the model
\* ------------------------------------------------------------------------
\* longest path of a route string passed to Router.handle
MaxRouteLen == 3
\* most routes a router holds (successful Router.handle calls)
MaxRoutes == 2
\* longest pathname of a request URL
MaxPathLen == 4

\* ------------------------------------------------------------------------
\* Values
\* ------------------------------------------------------------------------
\* null where a string-valued object is expected
None == "none"
\* undefined where a character sequence is expected; no string of the model
\* equals it, since the characters of a string have length one
Undefined == <<"undefined">>

\* the characters of route strings and of request pathnames
Chars == {"/", "a"}

SeqsUpTo(S, n) == UNION {[1..k -> S] : k \in 0..n}

\* the hostnames that qualify a route; the empty one makes a host-less route
RouteHosts == {<<>>, <<"a">>}

\* the strings Router.handle is given: the empty string, and a rooted path
\* with or without a hostname in front
RouteStrings ==
    {<<>>} \cup {host \o path : host \in RouteHosts,
                               path \in {p \in SeqsUpTo(Chars, MaxRouteLen) :
                                           p # <<>> /\ p[1] = "/"}}

\* the handlers a caller registers
Handlers == {"h1", "h2"}

\* hostnames of request URLs
Hostnames == {<<"a">>, <<"b">>}

\* values of the Host header of a request: absent, empty, a hostname with a
\* port, and a value whose port is not a number
HostHeaders == {Undefined, <<>>, <<"a", ":", "8">>, <<"a", ":", "x">>}

\* pathnames of request URLs.  The URL parser has already resolved "." and
\* ".." segments, so a pathname starts with "/" and holds none of them.
Pathnames == {p \in SeqsUpTo(Chars, MaxPathLen) : p # <<>> /\ p[1] = "/"}

\* the query string and the fragment of request URLs
Searches == {<<"?", "q">>}
Hashes == {<<"#", "f">>}

Urls ==
    [hostname : Hostnames, pathname : Pathnames, search : Searches, hash : Hashes]

Requests == [url : Urls, host : HostHeaders]

MovedPermanently == 301
NotFound == 404

STATUS_TEXT == (MovedPermanently :> "Moved Permanently") @@ (NotFound :> "Not Found")

\* ------------------------------------------------------------------------
\* String helpers (JavaScript String and Array methods)
\* ------------------------------------------------------------------------
\* String.prototype.at(-1): the last character, undefined on the empty string
AtLast(s) == IF Len(s) = 0 THEN None ELSE s[Len(s)]

\* route[0]: the first character, undefined on the empty string
AtFirst(s) == IF Len(s) = 0 THEN None ELSE s[1]

\* String.prototype.startsWith
StartsWith(s, prefix) ==
    /\ Len(prefix) <= Len(s)
    /\ SubSeq(s, 1, Len(prefix)) = prefix

\* Array.prototype.findIndex, zero-based, -1 when no element satisfies Test
FindIndexShorter(arr, n) ==
    IF \E i \in 1..Len(arr) : Len(arr[i]) < n
    THEN (CHOOSE i \in 1..Len(arr) :
            /\ Len(arr[i]) < n
            /\ \A j \in 1..(i - 1) : ~(Len(arr[j]) < n)) - 1
    ELSE -1

\* Array.prototype.splice(start, 0, item): a negative start counts from the
\* end of the array (and is clamped at 0), a start past the end is clamped
Splice(arr, start, item) ==
    LET len == Len(arr)
        actualStart == IF start < 0
                       THEN (IF len + start < 0 THEN 0 ELSE len + start)
                       ELSE (IF start > len THEN len ELSE start)
    IN  SubSeq(arr, 1, actualStart) \o <<item>> \o SubSeq(arr, actualStart + 1, len)

\* ------------------------------------------------------------------------
\* path/posix.ts normalize
\* ------------------------------------------------------------------------
RECURSIVE SplitFrom(_, _, _, _)
SplitFrom(s, i, cur, acc) ==
    IF i > Len(s) THEN Append(acc, cur)
    ELSE IF s[i] = "/" THEN SplitFrom(s, i + 1, <<>>, Append(acc, cur))
    ELSE SplitFrom(s, i + 1, Append(cur, s[i]), acc)

\* the segments of a path between its separators
Split(s) == SplitFrom(s, 1, <<>>, <<>>)

RECURSIVE ResolveFrom(_, _, _)
ResolveFrom(segs, i, acc) ==
    IF i > Len(segs) THEN acc
    ELSE IF segs[i] = <<>> \/ segs[i] = <<".">> THEN ResolveFrom(segs, i + 1, acc)
    ELSE IF segs[i] = <<".", ".">>
         THEN ResolveFrom(segs, i + 1,
                          IF Len(acc) = 0 THEN acc ELSE SubSeq(acc, 1, Len(acc) - 1))
    ELSE ResolveFrom(segs, i + 1, Append(acc, segs[i]))

RECURSIVE Join(_)
Join(segs) ==
    IF Len(segs) = 0 THEN <<>>
    ELSE IF Len(segs) = 1 THEN segs[1]
    ELSE segs[1] \o <<"/">> \o Join(Tail(segs))

\* normalize of an absolute path: "." and empty segments are dropped, ".."
\* removes the segment before it, a trailing separator is kept
normalize(path) ==
    LET body == Join(ResolveFrom(Split(path), 1, <<>>))
        trailingSeparator == AtLast(path) = "/"
    IN  <<"/">> \o body \o (IF Len(body) > 0 /\ trailingSeparator THEN <<"/">> ELSE <<>>)

\* ------------------------------------------------------------------------
\* URL
\* ------------------------------------------------------------------------
IsDigit(c) == c \in {"0", "1", "2", "3", "4", "5", "6", "7", "8", "9"}

\* new URL(`proto://${hostHeader}`).hostname: the host without its port; the
\* constructor throws when the port is not a number
HostHeaderHostname(hostHeader) ==
    IF \E i \in 1..Len(hostHeader) : hostHeader[i] = ":"
    THEN LET colon == CHOOSE i \in 1..Len(hostHeader) :
                        /\ hostHeader[i] = ":"
                        /\ \A j \in 1..(i - 1) : hostHeader[j] # ":"
             port == SubSeq(hostHeader, colon + 1, Len(hostHeader))
         IN  IF \A k \in 1..Len(port) : IsDigit(port[k])
             THEN [ok |-> TRUE, hostname |-> SubSeq(hostHeader, 1, colon - 1)]
             ELSE [ok |-> FALSE, hostname |-> <<>>]
    ELSE [ok |-> TRUE, hostname |-> hostHeader]

\* URL.prototype.toString
UrlToString(url) ==
    <<"http://">> \o url.hostname \o url.pathname \o url.search \o url.hash

\* ------------------------------------------------------------------------
\* State
\* ------------------------------------------------------------------------
VARIABLES
    routeMap,       \* #routeMap: route string -> handler
    orderedRoutes,  \* #orderedRoutes: the routes ending in "/"
    hosts,          \* #hosts
    last            \* the last call on the router and its outcome

vars == <<routeMap, orderedRoutes, hosts, last>>

table == <<routeMap, orderedRoutes, hosts>>

NoRequest ==
    [url |-> [hostname |-> <<>>, pathname |-> <<>>, search |-> <<>>, hash |-> <<>>],
     host |-> Undefined]

NoResponse == [status |-> 0, body |-> None, headers |-> {}]

NoCall ==
    [op |-> "new", route |-> <<>>, handler |-> None, error |-> None,
     request |-> NoRequest, called |-> None, response |-> NoResponse]

Init ==
    /\ routeMap = <<>>
    /\ orderedRoutes = <<>>
    /\ hosts = FALSE
    /\ last = NoCall

\* ------------------------------------------------------------------------
\* Router
\* ------------------------------------------------------------------------
ERROR_INVALID_ROUTE == "Invalid route"
ERROR_ALREADY_REGISTERED == "Route already registered"
ERROR_INVALID_URL == "Invalid URL"

\* (mutant) the hostname taken from the URL whatever the Host header says
getHostname_urlOnly(hostHeader, url) ==
    [ok |-> TRUE, hostname |-> url.hostname]

\* _getHostname
getHostname(hostHeader, url) ==
    IF hostHeader # Undefined /\ hostHeader # <<>>
    THEN HostHeaderHostname(hostHeader)
    ELSE [ok |-> TRUE, hostname |-> url.hostname]

\* (mutant) the redirect whose Location leaves the fragment out
redirectHandler_noHash(url, status) ==
    [fn |-> "_redirect", route |-> Undefined, error |-> None,
     response |-> [status |-> status, body |-> None,
                   headers |-> {<<"location", UrlToString([url EXCEPT !.hash = <<>>])>>}]]

\* _redirectHandler
redirectHandler(url, status) ==
    [fn |-> "_redirect", route |-> Undefined, error |-> None,
     response |-> [status |-> status, body |-> None,
                   headers |-> {<<"location", UrlToString(url)>>}]]

\* (mutant) the "Not Found" handler without the nosniff header
notFoundHandler_noSniffMissing ==
    [fn |-> "_notFound", route |-> Undefined, error |-> None,
     response |-> [status |-> NotFound, body |-> STATUS_TEXT[NotFound],
                   headers |-> {<<"content-type", "text/plain; charset=utf-8">>}]]

\* _notFoundHandler
notFoundHandler ==
    [fn |-> "_notFound", route |-> Undefined, error |-> None,
     response |-> [status |-> NotFound, body |-> STATUS_TEXT[NotFound],
                   headers |-> {<<"content-type", "text/plain; charset=utf-8">>,
                                <<"x-content-type-options", "nosniff">>}]]

\* a handler found in #routeMap, with the route it is registered under
registeredHandler(route) ==
    [fn |-> routeMap[route], route |-> route, error |-> None, response |-> NoResponse]

\* (mutant) the redirect check that looks for the host-less route only
shouldRedirect_pathOnly(host, path) ==
    IF path \in DOMAIN routeMap THEN FALSE
    ELSE IF (path \o <<"/">>) \in DOMAIN routeMap THEN ~(AtLast(path) = "/")
    ELSE FALSE

\* (mutant) the redirect check without the test for a registered exact route
shouldRedirect_noExactCheck(host, path) ==
    IF \E r \in {path, host \o path} : (r \o <<"/">>) \in DOMAIN routeMap
    THEN ~(AtLast(path) = "/")
    ELSE FALSE

\* Router.#shouldRedirect
shouldRedirect(host, path) ==
    LET routes == <<path, host \o path>>
        hasTrailingSlash == AtLast(path) = "/"
    IN  IF \E i \in 1..2 : routes[i] \in DOMAIN routeMap THEN FALSE
        ELSE IF \E i \in 1..2 : (routes[i] \o <<"/">>) \in DOMAIN routeMap
             THEN ~hasTrailingSlash
        ELSE FALSE

\* the first registered route of #orderedRoutes that is a prefix of route
firstPrefix(route) ==
    IF \E i \in 1..Len(orderedRoutes) : StartsWith(route, orderedRoutes[i])
    THEN orderedRoutes[CHOOSE i \in 1..Len(orderedRoutes) :
            /\ StartsWith(route, orderedRoutes[i])
            /\ \A j \in 1..(i - 1) : ~StartsWith(route, orderedRoutes[j])]
    ELSE Undefined

\* (mutant) the match that scans the subtrees before it looks for the exact key
match_subtreesFirst(route) ==
    IF firstPrefix(route) # Undefined THEN firstPrefix(route)
    ELSE IF route \in DOMAIN routeMap THEN route
    ELSE Undefined

\* (mutant) the match that knows exact keys only
match_exactOnly(route) ==
    IF route \in DOMAIN routeMap THEN route ELSE Undefined

\* Router.#match: the route whose handler is returned, or undefined
match(route) ==
    IF route \in DOMAIN routeMap THEN route ELSE firstPrefix(route)

\* (mutant) the host-less lookup tried before the host-qualified one
matchHandler_pathFirst(host, path) ==
    LET pathMatch == match(path)
        found == IF pathMatch # Undefined THEN pathMatch
                 ELSE IF hosts THEN match(host \o path) ELSE Undefined
    IN  IF found # Undefined THEN registeredHandler(found) ELSE notFoundHandler

\* (mutant) the lookup that never puts the hostname in front of the path
matchHandler_noHostPhase(host, path) ==
    LET found == match(path)
    IN  IF found # Undefined THEN registeredHandler(found) ELSE notFoundHandler

\* Router.#matchHandler
matchHandler(host, path) ==
    LET hostMatch == IF hosts THEN match(host \o path) ELSE Undefined
        found == IF hostMatch # Undefined THEN hostMatch ELSE match(path)
    IN  IF found # Undefined THEN registeredHandler(found) ELSE notFoundHandler

\* what a call gives when it throws instead of returning
thrown(error) ==
    [fn |-> "throw", route |-> Undefined, error |-> error, response |-> NoResponse]

\* (mutant) the handler lookup without the redirect to the normalized path
getHandler_noNormalizeRedirect(request) ==
    LET requestUrl == request.url
        h == getHostname(request.host, requestUrl)
        hostname == h.hostname
        path == normalize(requestUrl.pathname)
    IN  IF ~h.ok THEN thrown(ERROR_INVALID_URL)
        ELSE IF shouldRedirect(hostname, path)
        THEN redirectHandler([requestUrl EXCEPT !.pathname = path \o <<"/">>],
                             MovedPermanently)
        ELSE matchHandler(hostname, path)

\* (mutant) the trailing slash appended to the pathname as it was requested
getHandler_slashOnRawPath(request) ==
    LET requestUrl == request.url
        h == getHostname(request.host, requestUrl)
        hostname == h.hostname
        path == normalize(requestUrl.pathname)
    IN  IF ~h.ok THEN thrown(ERROR_INVALID_URL)
        ELSE IF shouldRedirect(hostname, path)
        THEN redirectHandler([requestUrl EXCEPT !.pathname = requestUrl.pathname \o <<"/">>],
                             MovedPermanently)
        ELSE IF path # requestUrl.pathname
        THEN redirectHandler([requestUrl EXCEPT !.pathname = path], MovedPermanently)
        ELSE matchHandler(hostname, path)

\* Router.#getHandler
getHandler(request) ==
    LET requestUrl == request.url
        h == getHostname(request.host, requestUrl)
        hostname == h.hostname
        path == normalize(requestUrl.pathname)
    IN  IF ~h.ok THEN thrown(ERROR_INVALID_URL)
        ELSE IF shouldRedirect(hostname, path)
        THEN redirectHandler([requestUrl EXCEPT !.pathname = path \o <<"/">>],
                             MovedPermanently)
        ELSE IF path # requestUrl.pathname
        THEN redirectHandler([requestUrl EXCEPT !.pathname = path], MovedPermanently)
        ELSE matchHandler(hostname, path)

\* (mutant) the dispatch that moves the subtree route it matched to the front
\* of #orderedRoutes
handler_moveToFront(request) ==
    LET hd == getHandler(request)
        rest == SelectSeq(orderedRoutes, LAMBDA r : r # hd.route)
    IN  /\ routeMap' = routeMap
        /\ hosts' = hosts
        /\ orderedRoutes' = IF \E i \in 1..Len(orderedRoutes) : orderedRoutes[i] = hd.route
                            THEN <<hd.route>> \o rest
                            ELSE orderedRoutes
        /\ last' = [op |-> "handler", route |-> hd.route, handler |-> None,
                    error |-> hd.error, request |-> request,
                    called |-> hd.fn, response |-> hd.response]

\* Router.handler: the whole dispatch of one request.  A registered handler
\* is recorded as called; the two synthesized handlers give their response.
handler(request) ==
    LET hd == getHandler(request)
    IN  /\ UNCHANGED table
        /\ last' = [op |-> "handler", route |-> hd.route, handler |-> None,
                    error |-> hd.error, request |-> request,
                    called |-> hd.fn, response |-> hd.response]

\* (mutant) the registration that assigns #hosts from the new route alone
register_hostsReset(route, h) ==
    /\ Cardinality(DOMAIN routeMap \cup {route}) <= MaxRoutes
    /\ routeMap' = [r \in DOMAIN routeMap \cup {route} |->
                       IF r = route THEN h ELSE routeMap[r]]
    /\ orderedRoutes' =
           IF AtLast(route) = "/"
           THEN Splice(orderedRoutes, FindIndexShorter(orderedRoutes, Len(route)), route)
           ELSE orderedRoutes
    /\ hosts' = (AtFirst(route) # "/")
    /\ last' = [NoCall EXCEPT !.op = "handle", !.route = route, !.handler = h]

\* (mutant) the registration that puts every route into #orderedRoutes
register_allOrdered(route, h) ==
    /\ Cardinality(DOMAIN routeMap \cup {route}) <= MaxRoutes
    /\ routeMap' = [r \in DOMAIN routeMap \cup {route} |->
                       IF r = route THEN h ELSE routeMap[r]]
    /\ orderedRoutes' =
           Splice(orderedRoutes, FindIndexShorter(orderedRoutes, Len(route)), route)
    /\ hosts' = IF AtFirst(route) # "/" THEN TRUE ELSE hosts
    /\ last' = [NoCall EXCEPT !.op = "handle", !.route = route, !.handler = h]

\* the three assignments of a successful Router.handle
register(route, h) ==
    /\ Cardinality(DOMAIN routeMap \cup {route}) <= MaxRoutes
    /\ routeMap' = [r \in DOMAIN routeMap \cup {route} |->
                       IF r = route THEN h ELSE routeMap[r]]
    /\ orderedRoutes' =
           IF AtLast(route) = "/"
           THEN Splice(orderedRoutes, FindIndexShorter(orderedRoutes, Len(route)), route)
           ELSE orderedRoutes
    /\ hosts' = IF AtFirst(route) # "/" THEN TRUE ELSE hosts
    /\ last' = [NoCall EXCEPT !.op = "handle", !.route = route, !.handler = h]

\* (mutant) Router.handle without the check for a registered route
handle_overwrite(route, h) ==
    IF route = <<>>
    THEN /\ UNCHANGED table
         /\ last' = [NoCall EXCEPT !.op = "handle", !.route = route, !.handler = h,
                                   !.error = ERROR_INVALID_ROUTE]
    ELSE register(route, h)

\* (mutant) Router.handle without the check for the empty route
handle_acceptEmpty(route, h) ==
    IF route \in DOMAIN routeMap
    THEN /\ UNCHANGED table
         /\ last' = [NoCall EXCEPT !.op = "handle", !.route = route, !.handler = h,
                                   !.error = ERROR_ALREADY_REGISTERED]
    ELSE register(route, h)

\* Router.handle
handle(route, h) ==
    IF route = <<>>
    THEN /\ UNCHANGED table
         /\ last' = [NoCall EXCEPT !.op = "handle", !.route = route, !.handler = h,
                                   !.error = ERROR_INVALID_ROUTE]
    ELSE IF route \in DOMAIN routeMap
    THEN /\ UNCHANGED table
         /\ last' = [NoCall EXCEPT !.op = "handle", !.route = route, !.handler = h,
                                   !.error = ERROR_ALREADY_REGISTERED]
    ELSE register(route, h)

Next ==
    \/ \E route \in RouteStrings, h \in Handlers : handle(route, h)
    \/ \E request \in Requests : handler(request)

Spec == Init /\ [][Next]_vars

\* ------------------------------------------------------------------------
\* Vocabulary of the properties
\* ------------------------------------------------------------------------
\* the registered route strings
Routes == DOMAIN routeMap

\* the registered subtree routes: those ending in "/"
Subtrees == {r \in Routes : AtLast(r) = "/"}

\* some registered route is host-qualified
HostRoutesRegistered == \E r \in Routes : AtFirst(r) # "/"

\* the characters of s before its first ":"
RECURSIVE BeforeColon(_)
BeforeColon(s) ==
    IF Len(s) = 0 \/ Head(s) = ":" THEN <<>> ELSE <<Head(s)>> \o BeforeColon(Tail(s))

\* the last call was a dispatch that got as far as a hostname
Dispatched == last.op = "handler" /\ last.error = None

ReqUrl == last.request.url

\* the hostname of the dispatched request
ReqHostname ==
    IF last.request.host = Undefined \/ last.request.host = <<>>
    THEN ReqUrl.hostname
    ELSE BeforeColon(last.request.host)

\* the normalized path of the dispatched request
ReqPath == normalize(ReqUrl.pathname)

\* the lookup key of the host-qualified phase
HostKey == ReqHostname \o ReqPath

\* the dispatched request was already normalized
ReqNormalized == ReqPath = ReqUrl.pathname

\* the registered subtree routes that are a prefix of key
PrefixRoutes(key) == {r \in Subtrees : StartsWith(key, r)}

LongestOf(S) == CHOOSE r \in S : \A q \in S : Len(q) <= Len(r)

\* the condition of the trailing-slash redirect
NeedsSlash ==
    /\ AtLast(ReqPath) # "/"
    /\ ReqPath \notin Routes
    /\ HostKey \notin Routes
    /\ (ReqPath \o <<"/">>) \in Routes \/ (HostKey \o <<"/">>) \in Routes

\* the request URL with its path replaced, query and fragment kept
LocationWithPath(path) ==
    <<"http://">> \o ReqUrl.hostname \o path \o ReqUrl.search \o ReqUrl.hash

\* the dispatch answered 301 to the request URL with the given path, and no
\* registered handler was called
RedirectedTo(path) ==
    /\ last.called = "_redirect"
    /\ last.route = Undefined
    /\ last.response = [status |-> 301, body |-> None,
                        headers |-> {<<"location", LocationWithPath(path)>>}]

Redirected == last.response.status = 301

\* the dispatch called the handler registered under route
Resolved(route) ==
    /\ route \in Routes
    /\ last.route = route
    /\ last.called = routeMap[route]

\* the dispatch answered with the synthesized 404
Answered404 ==
    /\ last.called = "_notFound"
    /\ last.route = Undefined
    /\ last.response = [status |-> 404, body |-> STATUS_TEXT[NotFound],
                        headers |-> {<<"content-type", "text/plain; charset=utf-8">>,
                                     <<"x-content-type-options", "nosniff">>}]

\* the host-qualified lookup finds nothing
HostPhaseEmpty ==
    \/ ~HostRoutesRegistered
    \/ HostKey \notin Routes /\ PrefixRoutes(HostKey) = {}

\* ------------------------------------------------------------------------
\* C1: when the request triggers no redirect and neither lookup key is an
\* exact route, the dispatch calls the handler of the longest registered
\* subtree route that is a prefix of the lookup key (hostname + path first,
\* the path alone when no subtree is a prefix of hostname + path), whatever
\* the order of the Router.handle calls.
\* ------------------------------------------------------------------------
C1_LongestSubtreeWins ==
    (Dispatched /\ ~Redirected /\ HostKey \notin Routes /\ ReqPath \notin Routes) =>
        IF PrefixRoutes(HostKey) # {}
        THEN Resolved(LongestOf(PrefixRoutes(HostKey)))
        ELSE IF PrefixRoutes(ReqPath) # {}
        THEN Resolved(LongestOf(PrefixRoutes(ReqPath)))
        ELSE TRUE

\* ------------------------------------------------------------------------
\* C2: when p + "/" is registered, host-less or under the request's
\* hostname, and neither p nor hostname + p is, a request whose normalized
\* path is p (not ending in "/") is answered 301 with the request URL whose
\* path is p + "/", query and fragment unchanged; no registered handler is
\* called, also when a shorter subtree route is a prefix of p.
\* ------------------------------------------------------------------------
C2_TrailingSlashRedirect ==
    (Dispatched /\ NeedsSlash) => RedirectedTo(ReqPath \o <<"/">>)

C2_Witness ==
    /\ Dispatched /\ NeedsSlash
    /\ <<"/">> \in Routes
    /\ ReqPath = <<"/", "a">>
    /\ Redirected

\* ------------------------------------------------------------------------
\* C3: when the trailing-slash redirect does not apply and the normalized
\* path differs from the path of the request, the answer is 301 with the
\* request URL whose path is the normalized one, query and fragment
\* unchanged, and no registered handler is called.
\* ------------------------------------------------------------------------
C3_NormalizeRedirect ==
    (Dispatched /\ ~NeedsSlash /\ ~ReqNormalized) => RedirectedTo(ReqPath)

C3_Witness ==
    /\ Dispatched /\ ~NeedsSlash /\ ~ReqNormalized
    /\ ReqPath \in Routes
    /\ Redirected

\* ------------------------------------------------------------------------
\* C4: a request with a normalized path, for which no redirect applies and
\* for which neither hostname + path nor path is an exact route or has a
\* registered subtree route as prefix, is answered with the 404 response
\* (the "Not Found" status text, the two headers) and no registered handler
\* is called; so is a request for a path registered under another hostname.
\* ------------------------------------------------------------------------
C4_NotFound ==
    ( /\ Dispatched /\ ReqNormalized /\ ~NeedsSlash
      /\ HostKey \notin Routes /\ ReqPath \notin Routes
      /\ PrefixRoutes(HostKey) = {} /\ PrefixRoutes(ReqPath) = {} )
    => Answered404

C4_Witness ==
    /\ Dispatched /\ Answered404
    /\ ReqHostname = <<"b">>
    /\ (<<"a">> \o ReqPath) \in Routes

\* ------------------------------------------------------------------------
\* C5: Router.handle of a route that is already registered fails with the
\* duplicate-route error and leaves #routeMap, #orderedRoutes and #hosts as
\* they were; a registered route keeps its handler, and a dispatch that
\* resolves to a route calls the handler that route was first given.
\* ------------------------------------------------------------------------
C5_DuplicateRejected ==
    [][ /\ (last'.op = "handle" /\ last'.route \in Routes) =>
              /\ last'.error = ERROR_ALREADY_REGISTERED
              /\ UNCHANGED table
        /\ \A r \in Routes : r \in DOMAIN routeMap' /\ routeMap'[r] = routeMap[r]
        /\ (last'.op = "handler" /\ last'.route # Undefined) =>
              last'.called = routeMap[last'.route] ]_vars

C5_Witness ==
    /\ last.op = "handle"
    /\ last.error = ERROR_ALREADY_REGISTERED
    /\ last.route \in Routes
    /\ last.handler # routeMap[last.route]

\* ------------------------------------------------------------------------
\* C6: Router.handle of the empty route fails with the invalid-route error
\* and leaves #routeMap, #orderedRoutes and #hosts unchanged; the empty
\* string is never a key of #routeMap nor an entry of #orderedRoutes.
\* ------------------------------------------------------------------------
EmptyRouteAbsent(map, ordered) ==
    /\ <<>> \notin DOMAIN map
    /\ \A i \in 1..Len(ordered) : ordered[i] # <<>>

C6_EmptyRouteRejected ==
    /\ EmptyRouteAbsent(routeMap, orderedRoutes)
    /\ [][ /\ (last'.op = "handle" /\ last'.route = <<>>) =>
                 /\ last'.error = ERROR_INVALID_ROUTE
                 /\ UNCHANGED table
           /\ EmptyRouteAbsent(routeMap', orderedRoutes') ]_vars

C6_Witness ==
    /\ last.op = "handle"
    /\ last.route = <<>>
    /\ last.error = ERROR_INVALID_ROUTE
    /\ Cardinality(Routes) = MaxRoutes

\* ------------------------------------------------------------------------
\* C7: with a host-qualified route registered, the host-qualified lookup
\* (exact key hostname + path, then subtree prefixes of hostname + path) is
\* made before any host-less lookup: a host-qualified subtree that is a
\* prefix of hostname + path is chosen over a host-less route equal to the
\* path, and a host-less route is chosen only when the host-qualified
\* lookup finds nothing.
\* ------------------------------------------------------------------------
C7_HostPhaseFirst ==
    (Dispatched /\ ~Redirected /\ HostRoutesRegistered) =>
        /\ HostKey \in Routes => Resolved(HostKey)
        /\ (HostKey \notin Routes /\ PrefixRoutes(HostKey) # {}) =>
              \E r \in PrefixRoutes(HostKey) : Resolved(r)
        /\ (last.route # Undefined /\ AtFirst(last.route) = "/") =>
              /\ HostKey \notin Routes
              /\ PrefixRoutes(HostKey) = {}

C7_Witness ==
    /\ Dispatched
    /\ ReqPath \in Routes
    /\ HostKey \notin Routes
    /\ Resolved(<<"a", "/">>)

\* ------------------------------------------------------------------------
\* C8: with H + "/" and "/" the registered routes, in either order of
\* registration, a request with hostname H and a normalized path resolves
\* to the handler of H + "/" and a request with another hostname to the
\* handler of "/"; with more routes registered the request with hostname H
\* still resolves to a route qualified with H; and the handler of a route
\* qualified with a host is never called for a request with another
\* hostname.
\* ------------------------------------------------------------------------
\* the host of a host-qualified route: its characters before the first "/"
RECURSIVE HostOf(_)
HostOf(route) ==
    IF Len(route) = 0 \/ Head(route) = "/" THEN <<>>
    ELSE <<Head(route)>> \o HostOf(Tail(route))

C8_HostRootAndRoot ==
    Dispatched =>
        /\ \A r \in Routes :
              ( /\ AtFirst(r) # "/"
                /\ r = HostOf(r) \o <<"/">>
                /\ <<"/">> \in Routes
                /\ ReqNormalized ) =>
                    /\ (Routes = {r, <<"/">>} /\ ReqHostname = HostOf(r)) => Resolved(r)
                    /\ (Routes = {r, <<"/">>} /\ ReqHostname # HostOf(r)) => Resolved(<<"/">>)
                    /\ (ReqHostname = HostOf(r) /\ ~Redirected) =>
                          /\ last.route # Undefined
                          /\ HostOf(last.route) = HostOf(r)
        /\ (last.route # Undefined /\ AtFirst(last.route) # "/") =>
              HostOf(last.route) = ReqHostname

C8_Witness ==
    /\ Dispatched
    /\ orderedRoutes = << <<"/">>, <<"a", "/">> >>
    /\ ReqHostname = <<"a">>
    /\ ReqPath = <<"/", "a">>
    /\ Resolved(<<"a", "/">>)

\* ------------------------------------------------------------------------
\* C9: in each lookup phase a lookup key that is a registered route string
\* resolves to that route, also when a registered subtree route is a prefix
\* of the key; a subtree route is chosen as a prefix only when the key of
\* its phase is not registered.
\* ------------------------------------------------------------------------
C9_ExactBeforeSubtree ==
    (Dispatched /\ ~Redirected) =>
        /\ (HostRoutesRegistered /\ HostKey \in Routes) => Resolved(HostKey)
        /\ (HostPhaseEmpty /\ ReqPath \in Routes) => Resolved(ReqPath)
        /\ (last.route # Undefined /\ last.route # HostKey /\ last.route # ReqPath) =>
              /\ last.route \in Subtrees
              /\ StartsWith(HostKey, last.route) => HostKey \notin Routes
              /\ StartsWith(ReqPath, last.route) => ReqPath \notin Routes

C9_Witness ==
    /\ Dispatched
    /\ Resolved(ReqPath)
    /\ \E r \in Subtrees : r # ReqPath /\ StartsWith(ReqPath, r)

\* ------------------------------------------------------------------------
\* C10: while "/" is registered, a request that triggers no redirect and is
\* matched by no exact route and by no longer subtree route is dispatched to
\* the handler of "/", whatever its path and hostname, and no dispatch is
\* answered with the synthesized 404.
\* ------------------------------------------------------------------------
C10_RootCatchAll ==
    (Dispatched /\ <<"/">> \in Routes) =>
        /\ last.called # "_notFound"
        /\ last.response.status # 404
        /\ ( /\ ~Redirected
             /\ HostKey \notin Routes /\ ReqPath \notin Routes
             /\ PrefixRoutes(HostKey) = {}
             /\ PrefixRoutes(ReqPath) = {<<"/">>} ) => Resolved(<<"/">>)

C10_Witness ==
    /\ Dispatched
    /\ Cardinality(Routes) > 1
    /\ ReqPath = <<"/", "a", "/", "a">>
    /\ ReqHostname = <<"b">>
    /\ Resolved(<<"/">>)

\* ------------------------------------------------------------------------
\* C11: a dispatch whose request carries a Host header with a hostname other
\* than the URL's makes its host-qualified lookups (the trailing-slash
\* redirect check and the host-qualified match) with the header's hostname,
\* the port removed; the URL's hostname is used when there is no header.
\* As amended: this holds of a non-empty Host header, and the URL's hostname
\* is used when the header is absent or empty.
\* ------------------------------------------------------------------------
\* the condition of the trailing-slash redirect, made with hostname H
SlashNeededWith(H) ==
    /\ AtLast(ReqPath) # "/"
    /\ ReqPath \notin Routes
    /\ (H \o ReqPath) \notin Routes
    /\ (ReqPath \o <<"/">>) \in Routes \/ (H \o ReqPath \o <<"/">>) \in Routes

\* the outcome of the dispatch is the one of lookups made with hostname H
LookupsUse(H) ==
    /\ RedirectedTo(ReqPath \o <<"/">>) <=> SlashNeededWith(H)
    /\ ~Redirected =>
          /\ (H \o ReqPath) \in Routes => Resolved(H \o ReqPath)
          /\ ((H \o ReqPath) \notin Routes /\ PrefixRoutes(H \o ReqPath) # {}) =>
                last.route \in PrefixRoutes(H \o ReqPath)
          /\ (last.route # Undefined /\ AtFirst(last.route) # "/") =>
                HostOf(last.route) = H

HeaderDiffers ==
    /\ last.request.host # Undefined
    /\ BeforeColon(last.request.host) # ReqUrl.hostname

\* the claim as it was made: any Host header that is present is used
C11_AnyHostHeaderUsed ==
    /\ (Dispatched /\ HeaderDiffers) => LookupsUse(BeforeColon(last.request.host))
    /\ (Dispatched /\ last.request.host = Undefined) => LookupsUse(ReqUrl.hostname)

C11_NonEmptyHostHeaderUsed ==
    /\ (Dispatched /\ HeaderDiffers /\ last.request.host # <<>>) =>
          LookupsUse(BeforeColon(last.request.host))
    /\ (Dispatched /\ last.request.host \in {Undefined, <<>>}) =>
          LookupsUse(ReqUrl.hostname)

C11_Witness ==
    /\ Dispatched
    /\ last.request.host = <<"a", ":", "8">>
    /\ ReqUrl.hostname = <<"b">>
    /\ <<"/">> \in Routes
    /\ Resolved(<<"a", "/">>)

\* ------------------------------------------------------------------------
\* C12: for every route table and every request, whatever its path and its
\* Host header, the dispatch raises no error and gives exactly one of: the
\* result of one registered handler, a 301 redirect, the synthesized 404.
\* ------------------------------------------------------------------------
C12_DispatchNeverThrows ==
    last.op = "handler" =>
        /\ last.error = None
        /\ \/ last.called \in Handlers /\ Resolved(last.route) /\ last.response = NoResponse
           \/ last.called = "_redirect" /\ last.response.status = 301
           \/ Answered404

\* ------------------------------------------------------------------------
\* C13: with "/path/" the only route, a request for /path with a query and a
\* fragment is answered 301 with the Location /path/ followed by the query,
\* the fragment dropped.  As amended: the Location is the request URL with
\* the path /path/, the query and the fragment both kept.
\* ------------------------------------------------------------------------
\* the value of the Location header of the response
Location ==
    LET h == CHOOSE h \in last.response.headers : h[1] = "location" IN h[2]

EndsWith(s, suffix) ==
    /\ Len(suffix) <= Len(s)
    /\ SubSeq(s, Len(s) - Len(suffix) + 1, Len(s)) = suffix

OnlySubtreeRequestedBare ==
    /\ Dispatched
    /\ Routes = {<<"/", "a", "/">>}
    /\ ReqUrl.pathname = <<"/", "a">>

\* the claim as it was made: the Location ends with the query
C13_FragmentDropped ==
    OnlySubtreeRequestedBare =>
        /\ Redirected
        /\ EndsWith(Location, <<"/", "a", "/">> \o ReqUrl.search)

C13_FragmentKept ==
    OnlySubtreeRequestedBare =>
        /\ RedirectedTo(<<"/", "a", "/">>)
        /\ EndsWith(Location, <<"/", "a", "/">> \o ReqUrl.search \o ReqUrl.hash)
        /\ ReqUrl.hash # <<>>

C13_Witness ==
    /\ OnlySubtreeRequestedBare
    /\ Redirected
    /\ ReqUrl.search = <<"?", "q">>
    /\ ReqUrl.hash = <<"#", "f">>

\* ------------------------------------------------------------------------
\* C14: after every sequence of Router.handle calls, failed ones included,
\* #orderedRoutes is sorted by descending length: an entry is never shorter
\* than an entry after it.
\* ------------------------------------------------------------------------
C14_SortedByLength ==
    \A i, j \in 1..Len(orderedRoutes) :
        i < j => Len(orderedRoutes[i]) >= Len(orderedRoutes[j])

\* ------------------------------------------------------------------------
\* C15: the trailing-slash redirect check answers true exactly when neither
\* the path nor hostname + path is registered, one of them followed by "/"
\* is registered, and the path does not end in "/".  A host-less exact route
\* for the path suppresses the redirect also when only the host-qualified
\* route with the slash exists, and a path ending in "/" is not redirected.
\* ------------------------------------------------------------------------
RedirectCondition(host, path) ==
    /\ path \notin Routes /\ (host \o path) \notin Routes
    /\ (path \o <<"/">>) \in Routes \/ (host \o path \o <<"/">>) \in Routes
    /\ AtLast(path) # "/"

NormalizedPathnames == {p \in Pathnames : normalize(p) = p}

C15_RedirectCheckExact ==
    /\ \A host \in Hostnames, path \in NormalizedPathnames :
          shouldRedirect(host, path) <=> RedirectCondition(host, path)
    /\ Dispatched =>
          (RedirectedTo(ReqPath \o <<"/">>) <=> RedirectCondition(ReqHostname, ReqPath))

C15_Witness ==
    /\ Dispatched
    /\ ReqPath \in Routes
    /\ (HostKey \o <<"/">>) \in Routes
    /\ ~Redirected
    /\ Resolved(ReqPath)

\* ------------------------------------------------------------------------
\* C16: #hosts is true exactly when some registered route starts with a
\* character other than "/"; no call sets it back to false; and while it is
\* false a dispatch resolves to no host-qualified route.
\* ------------------------------------------------------------------------
C16_HostsFlag ==
    /\ hosts = HostRoutesRegistered
    /\ [][ /\ hosts => hosts'
           /\ hosts' = (\E r \in DOMAIN routeMap' : AtFirst(r) # "/")
           /\ (last'.op = "handler" /\ ~hosts /\ last'.route # Undefined) =>
                 AtFirst(last'.route) = "/" ]_vars

C16_Witness ==
    /\ hosts
    /\ last.op = "handle"
    /\ last.error = None
    /\ AtFirst(last.route) = "/"

\* ------------------------------------------------------------------------
\* C17: a dispatch leaves #routeMap, #orderedRoutes and #hosts unchanged
\* whatever its outcome, so the same request dispatched twice with no
\* Router.handle in between calls the same handler or gets an equal
\* response both times.
\* ------------------------------------------------------------------------
C17_DispatchReadsOnly ==
    [][ last'.op = "handler" =>
          /\ UNCHANGED table
          /\ (last.op = "handler" /\ last.request = last'.request) => last' = last ]_vars

C17_Witness ==
    /\ Dispatched
    /\ Cardinality(Routes) = MaxRoutes
    /\ Len(orderedRoutes) = 2
    /\ Resolved(orderedRoutes[2])

\* ------------------------------------------------------------------------
\* C18: after every sequence of Router.handle calls the two structures
\* agree: every entry of #orderedRoutes is a key of #routeMap and ends in
\* "/", every key that ends in "/" is in #orderedRoutes exactly once, and no
\* key that does not end in "/" is in it.
\* ------------------------------------------------------------------------
Occurrences(route) == Cardinality({i \in 1..Len(orderedRoutes) : orderedRoutes[i] = route})

C18_StructuresConsistent ==
    /\ \A i \in 1..Len(orderedRoutes) :
          orderedRoutes[i] \in Routes /\ AtLast(orderedRoutes[i]) = "/"
    /\ \A r \in Routes : AtLast(r) = "/" => Occurrences(r) = 1
    /\ \A r \in Routes : AtLast(r) # "/" => Occurrences(r) = 0

C18_Witness ==
    /\ last.op = "handle"
    /\ last.error = ERROR_ALREADY_REGISTERED
    /\ Cardinality(Routes) = 2
    /\ Len(orderedRoutes) = 1

\* ------------------------------------------------------------------------
\* C19: redirects do not chain: when a dispatch answers 301, a request for
\* the URL of the Location header, with the same Host header and against
\* the same table, is answered without another 301; after a trailing-slash
\* redirect it is answered by a registered handler.
\* ------------------------------------------------------------------------
RECURSIVE TakeUntil(_, _)
TakeUntil(s, stops) ==
    IF Len(s) = 0 \/ Head(s) \in stops THEN <<>>
    ELSE <<Head(s)>> \o TakeUntil(Tail(s), stops)

After(s, n) == SubSeq(s, n + 1, Len(s))

\* the URL a client reads from the text of a Location header
ParseUrl(str) ==
    LET rest == Tail(str)
        hostname == TakeUntil(rest, {"/", "?", "#"})
        r1 == After(rest, Len(hostname))
        pathname == TakeUntil(r1, {"?", "#"})
        r2 == After(r1, Len(pathname))
        search == TakeUntil(r2, {"#"})
    IN  [hostname |-> hostname, pathname |-> pathname, search |-> search,
         hash |-> After(r2, Len(search))]

\* what the router gives for the request that follows the redirect
FollowUp == getHandler([url |-> ParseUrl(Location), host |-> last.request.host])

C19_NoRedirectChain ==
    (Dispatched /\ Redirected) =>
        /\ Head(Location) = "http://"
        /\ FollowUp.error = None
        /\ FollowUp.fn # "_redirect"
        /\ NeedsSlash => (FollowUp.fn \in Handlers /\ FollowUp.route \in Routes)

C19_Witness ==
    /\ Dispatched /\ Redirected
    /\ NeedsSlash
    /\ ~ReqNormalized
    /\ FollowUp.fn \in Handlers

====
